---- MODULE Spec2Model ----
(***************************************************************************)
(* A model of the CSV scanner of be/src/exec/csv_scanner.cpp.              *)
(*                                                                         *)
(* Two levels are modelled.  The row level (Spec, SpecCap) follows         *)
(* CSVScanner::get_next, _init_reader, _parse_csv and _parse_csv_v2 one    *)
(* record at a time: a record is what the tokenizer hands to the scanner   *)
(* (its field count, whether its bytes are valid UTF-8, which of its       *)
(* fields the converters reject).  The byte level (SpecBuf) follows        *)
(* ScannerCSVReader::_fill_buffer over a buffer of bytes.                  *)
(***************************************************************************)
EXTENDS Integers, Sequences, FiniteSets, TLC

\* ------------------------------------------------------------------ bounds

\* Number of ranges (files) of the scan range.
NumRanges == 2
\* _state->chunk_size(): the row capacity of one batch.
ChunkSize == 2
\* _num_fields_in_csv: the expected number of file columns.
NumFieldsInCsv == 2
\* Records the tokenizer produces over one scan.
MaxRecords == 3
\* Records of a scan of SpecCap that are not counted as filtered.
MaxKept == 1
\* Timeouts the byte-stream source produces over one scan.
MaxTimeouts == 2
\* The largest skip_header.
MaxSkipHeader == 1
\* Records past the report cap that SpecCap lets the tokenizer produce.
CapSlack == 2
MaxFileLen == 3
MaxCapacity == 7
MaxFills == 4
MaxSampleRows == 2
MaxRecordLen == 4

\* ------------------------------------------------------- program constants

REPORT_ERROR_MAX_NUMBER == 50

\* A row may carry one field more than the schema expects.
MaxNf == NumFieldsInCsv + 1

ScanTypes == {"LOAD", "FILES_INSERT", "FILES_QUERY"}

\* src_slot_descriptors restricted to the file columns: TRUE for a retained
\* slot, FALSE for a nullptr slot (file column to ignore).  The chunk has one
\* column per retained slot; at least one slot is retained.
SlotLayouts == {s \in [1..NumFieldsInCsv -> BOOLEAN] : \E j \in 1..NumFieldsInCsv : s[j]}

\* ------------------------------------------------------------------- state

VARIABLES
    cfg,               \* the scan's configuration, fixed at construction
    pc,                \* where get_next stands: "idle", "init" or "loop"
    curr_file_index,   \* _curr_file_index
    curr_reader,       \* _curr_reader: "null", "open", or "eof" once it returned EndOfFile
    cols,              \* src_chunk: one sequence of values per retained slot
    num_rows,          \* the local num_rows of the batch loop
    row,               \* the record the last next_record call produced
    status,            \* the status the last next_record call returned
    num_rows_filtered, \* _counter->num_rows_filtered
    error_sink,        \* append_error_msg_to_file: number of messages so far, and the
                       \* message the last iteration of a batch loop emitted (if any)
    rejected_sink,     \* append_rejected_record_to_file: number of records
    ret,               \* what the last get_next call returned
    env,               \* the source so far: records produced that were not counted
                       \* as filtered, and timeouts raised
    buf,               \* the read buffer of ScannerCSVReader (byte level)
    sample,            \* schema inference: the file sampled and the schemas so far
    split              \* the plain loop at one record: its bytes and its fields

vars == <<cfg, pc, curr_file_index, curr_reader, cols, num_rows, row, status,
          num_rows_filtered, error_sink, rejected_sink, ret, env, buf, sample, split>>

scanVars == <<cfg, pc, curr_file_index, curr_reader, cols, num_rows, row, status,
              num_rows_filtered, error_sink, rejected_sink, ret, env>>

\* ----------------------------------------------------------------- records

BlankRow == [nf |-> 0, utf8 |-> TRUE, bad |-> {}]

\* A record of the file: nf fields, valid UTF-8 or not, and the set of field
\* positions whose text the converter of that position cannot parse.  A blank
\* record has no field.  No field of a record that is not valid UTF-8 is ever
\* handed to a converter, so such a record carries no such set.
Rows ==
    {r \in [nf : 0..MaxNf, utf8 : BOOLEAN, bad : SUBSET (1..NumFieldsInCsv)] :
        /\ \A j \in r.bad : j <= r.nf
        /\ (r.nf = 0 => r.utf8)
        /\ (~r.utf8 => r.bad = {})}

NoMsg == [text |-> "", a |-> 0, b |-> 0]

NoRet == [status |-> "none", msg |-> NoMsg, nrows |-> 0, partial |-> FALSE,
          after_partial |-> FALSE]


\* ------------------------------------------------------------- column sink

\* Chunk::num_rows(): the length of the first column.
ChunkNumRows(c) == IF Len(c) = 0 THEN 0 ELSE Len(c[1])

\* Chunk::set_num_rows(n): every column is cut back to n values.
SetNumRows(c, n) ==
    [k \in 1..Len(c) |-> IF Len(c[k]) > n THEN SubSeq(c[k], 1, n) ELSE c[k]]

\* _create_chunk: one empty column per retained slot.
CreateChunk == [k \in 1..Cardinality({j \in 1..NumFieldsInCsv : cfg.slots[j]}) |-> <<>>]

\* The option with the polarity of strict_mode kept instead of inverted.
InvalidFieldAsNullNotInverted == cfg.strict_mode

\* csv::Converter::Options{.invalid_field_as_null = !_strict_mode}
InvalidFieldAsNull == ~cfg.strict_mode

\* Converter::read_string_for_adaptive_null_column: a field the converter can
\* parse is appended; one it cannot parse is appended as a null when
\* invalid_field_as_null is set, and otherwise fails with the column untouched.
ReadString(column, isBad, invalid_field_as_null) ==
    IF ~isBad THEN [ok |-> TRUE, column |-> Append(column, "value")]
    ELSE IF invalid_field_as_null THEN [ok |-> TRUE, column |-> Append(column, "null")]
    ELSE [ok |-> FALSE, column |-> column]

\* --------------------------------------------------------------- messages

MakeColumnCountNotMatchedErrorMessageForLoad(expected_count, actual_count) ==
    [text |-> "Target column count doesn't match source value column count",
     a |-> expected_count, b |-> actual_count]

\* The query message also carries the raw row and the file name.
MakeColumnCountNotMatchedErrorMessageForQuery(expected_count, actual_count, r, filename) ==
    [text |-> "Schema column count doesn't match source value column count",
     a |-> expected_count, b |-> actual_count, row |-> r, file |-> filename]

MakeValueTypeNotMatchedErrorMessage(field_pos) ==
    [text |-> "The field is out of range", a |-> field_pos, b |-> 0]

InvalidUtf8Message == [text |-> "Invalid UTF-8 row", a |-> 0, b |-> 0]

\* ------------------------------------------------------- row-shape policy

\* The filter without its test of flexible_column_mapping.
ColumnCountFilteredAlways(nf) ==
    \/ (cfg.file_scan_type = "LOAD" /\ nf # NumFieldsInCsv)
    \/ (cfg.file_scan_type = "FILES_INSERT" /\ nf < NumFieldsInCsv)

\* Load filters a row whose field count differs from the column list, insert
\* from files() one with fewer fields than the schema.
ColumnCountFiltered(nf) ==
    /\ \/ (cfg.file_scan_type = "LOAD" /\ nf # NumFieldsInCsv)
       \/ (cfg.file_scan_type = "FILES_INSERT" /\ nf < NumFieldsInCsv)
    /\ ~cfg.flexible_column_mapping

\* Query files() fails on a row with fewer fields than the schema.
ColumnCountFatal(nf) ==
    /\ cfg.file_scan_type = "FILES_QUERY"
    /\ nf < NumFieldsInCsv
    /\ ~cfg.flexible_column_mapping

\* ------------------------------------------------------------- conversion

\* The conversion loop of one row, from file column j (1-based) and chunk
\* column k on: a nullptr slot is passed over, a slot past the row's fields
\* takes a default, and the first field its converter rejects stops the loop.
RECURSIVE FillRow(_, _, _, _)
FillRow(j, k, c, r) ==
    IF j > NumFieldsInCsv THEN [has_error |-> FALSE, cols |-> c, pos |-> 0]
    ELSE IF ~cfg.slots[j] THEN FillRow(j + 1, k, c, r)
    ELSE IF j > r.nf THEN FillRow(j + 1, k + 1, [c EXCEPT ![k] = Append(@, "default")], r)
    ELSE LET res == ReadString(c[k], j \in r.bad, InvalidFieldAsNull)
         IN  IF ~res.ok
             THEN [has_error |-> TRUE, cols |-> [c EXCEPT ![k] = res.column], pos |-> j - 1]
             ELSE FillRow(j + 1, k + 1, [c EXCEPT ![k] = res.column], r)

\* What one iteration of a batch loop does: how the loop goes on ("continue",
\* "break" or "return" with status st and message msg), the chunk and the
\* local row count after it, and whether it counted the row as filtered
\* (with the message it reports).
Iter(ctl, st, msg, c, n, filtered, report) ==
    [ctl |-> ctl, st |-> st, msg |-> msg, cols |-> c, num_rows |-> n,
     filtered |-> filtered, report |-> report]

\* The report test with <= for <.
ShouldReportOffByOne(counter) == counter <= REPORT_ERROR_MAX_NUMBER

\* _counter->num_rows_filtered++ < REPORT_ERROR_MAX_NUMBER, on the counter's
\* value before the increment.
ShouldReport(counter) == counter < REPORT_ERROR_MAX_NUMBER

\* An invalid row passed over without being counted.
DiscardInvalidUtf8Uncounted(c, n) == Iter("continue", "OK", NoMsg, c, n, FALSE, NoMsg)

\* A row whose bytes are not valid UTF-8: counted, reported, and the loop
\* goes on with the next record.
DiscardInvalidUtf8(c, n) == Iter("continue", "OK", NoMsg, c, n, TRUE, InvalidUtf8Message)

\* The conversion without chunk->set_num_rows(num_rows) on a failure.
ConvertRowNoRollback(r, c, n, ctlAfter) ==
    LET f == FillRow(1, 1, c, r)
    IN  IF f.has_error
        THEN Iter(ctlAfter, "OK", NoMsg, f.cols, n, TRUE,
                  MakeValueTypeNotMatchedErrorMessage(f.pos))
        ELSE Iter(ctlAfter, "OK", NoMsg, f.cols, n + 1, FALSE, NoMsg)

\* The conversion of a row that passed validation: every converted field is
\* appended, and a failure cuts the chunk back to the rows it had before the
\* row and counts the row as filtered.  ctlAfter is how the loop goes on.
ConvertRow(r, c, n, ctlAfter) ==
    LET f == FillRow(1, 1, c, r)
    IN  IF f.has_error
        THEN Iter(ctlAfter, "OK", NoMsg, SetNumRows(f.cols, n), n, TRUE,
                  MakeValueTypeNotMatchedErrorMessage(f.pos))
        ELSE Iter(ctlAfter, "OK", NoMsg, f.cols, n + 1, FALSE, NoMsg)

\* The iteration that does not test the record for being empty.
ParseCsvIterationNoBlankTest(st, r, c, n) ==
    IF st = "EndOfFile" THEN Iter("break", "OK", NoMsg, c, n, FALSE, NoMsg)
    ELSE IF st # "OK" THEN Iter("return", st, NoMsg, c, n, FALSE, NoMsg)
    ELSE IF ColumnCountFiltered(r.nf)
         THEN Iter("continue", "OK", NoMsg, c, n, TRUE,
                   MakeColumnCountNotMatchedErrorMessageForLoad(NumFieldsInCsv, r.nf))
    ELSE IF ColumnCountFatal(r.nf)
         THEN Iter("return", "DataQualityError",
                   MakeColumnCountNotMatchedErrorMessageForQuery(
                       NumFieldsInCsv, r.nf, r, curr_file_index),
                   c, n, FALSE, NoMsg)
    ELSE IF ~r.utf8 THEN DiscardInvalidUtf8(c, n)
    ELSE ConvertRow(r, c, n, "continue")

\* One iteration of the loop of _parse_csv (plain mode).
ParseCsvIteration(st, r, c, n) ==
    IF st = "EndOfFile" THEN Iter("break", "OK", NoMsg, c, n, FALSE, NoMsg)
    ELSE IF st # "OK" THEN Iter("return", st, NoMsg, c, n, FALSE, NoMsg)
    ELSE IF r.nf = 0 THEN Iter("continue", "OK", NoMsg, c, n, FALSE, NoMsg)
    ELSE IF ColumnCountFiltered(r.nf)
         THEN Iter("continue", "OK", NoMsg, c, n, TRUE,
                   MakeColumnCountNotMatchedErrorMessageForLoad(NumFieldsInCsv, r.nf))
    ELSE IF ColumnCountFatal(r.nf)
         THEN Iter("return", "DataQualityError",
                   MakeColumnCountNotMatchedErrorMessageForQuery(
                       NumFieldsInCsv, r.nf, r, curr_file_index),
                   c, n, FALSE, NoMsg)
    ELSE IF ~r.utf8 THEN DiscardInvalidUtf8(c, n)
    ELSE ConvertRow(r, c, n, "continue")

\* One iteration of the loop of _parse_csv_v2 (enclosure/escape mode).
ParseCsvV2Iteration(st, r, c, n) ==
    LET eof == st = "EndOfFile"
    IN  IF st # "OK" /\ ~eof THEN Iter("return", st, NoMsg, c, n, FALSE, NoMsg)
        ELSE IF r.nf = 0
             THEN Iter(IF eof THEN "break" ELSE "continue", "OK", NoMsg, c, n, FALSE, NoMsg)
        ELSE IF ColumnCountFiltered(r.nf)
             THEN IF eof THEN Iter("break", "OK", NoMsg, c, n, FALSE, NoMsg)
                  ELSE Iter("continue", "OK", NoMsg, c, n, TRUE,
                            MakeColumnCountNotMatchedErrorMessageForLoad(NumFieldsInCsv, r.nf))
        ELSE IF ColumnCountFatal(r.nf)
             THEN IF eof THEN Iter("break", "OK", NoMsg, c, n, FALSE, NoMsg)
                  ELSE Iter("return", "DataQualityError",
                            MakeColumnCountNotMatchedErrorMessageForQuery(
                                NumFieldsInCsv, r.nf, r, curr_file_index),
                            c, n, FALSE, NoMsg)
        ELSE IF ~r.utf8 THEN DiscardInvalidUtf8(c, n)
        ELSE ConvertRow(r, c, n, IF eof THEN "break" ELSE "continue")


\* ------------------------------------------------------------ the source

\* The source as the scan has used it: env.kept records read and not
\* filtered, env.timeouts timeouts, and env.fresh when the reader has just
\* been opened, its header skipped, and the batch loop has read nothing yet;
\* env.skip is the status of file->skip(start_offset) at the last opening.
\* The source may still time out / the tokenizer may still produce a record.
CanTimeOut == env.timeouts < cfg.max_timeouts
CanRead(k) ==
    /\ env.kept + k <= cfg.max_kept
    /\ env.kept + num_rows_filtered + k <= cfg.max_records

Timeouts == IF CanTimeOut THEN {"TimedOut"} ELSE {}

\* What opening a range can meet: the status of create_sequential_file, of
\* file->skip(start_offset), of the next_record(&dummy) after the skip, the
\* number of header records read before one fails, and that failure.
InitInputs ==
    {in \in [create : {"OK", "IOError"},
             skip   : {"OK", "IOError"} \cup Timeouts,
             first  : {"OK", "EndOfFile", "IOError"} \cup Timeouts,
             hdr_ok : 0..cfg.skip_header,
             hdr_st : {"EndOfFile", "IOError"} \cup Timeouts] :
        CanRead((IF in.first = "OK" THEN 1 ELSE 0) + in.hdr_ok)}

\* What next_record can answer in a batch loop: a record with OK; EndOfFile,
\* which the enclosure/escape tokenizer may deliver together with the last
\* record; a timeout or a failure of the source.  A reader that has returned
\* EndOfFile has no record left.
NextRecordAnswers ==
    LET none == {[status |-> st, row |-> BlankRow] :
                    st \in {"EndOfFile", "IOError"} \cup
                           (IF curr_reader = "eof" THEN {} ELSE Timeouts)}
        some == IF curr_reader = "eof" \/ ~CanRead(1) THEN {}
                ELSE {[status |-> st, row |-> r] :
                        st \in {"OK"}, r \in Rows} \cup
                     {[status |-> st, row |-> r] :
                        st \in (IF cfg.use_v2 THEN {"EndOfFile"} ELSE {}),
                        r \in Rows \ {BlankRow}}
    IN  none \cup some

\* ------------------------------------------------------------ _init_reader

InitResult(st, msg, idx, reader, used) ==
    [st |-> st, msg |-> msg, idx |-> idx, reader |-> reader, used |-> used]

\* The message with the rows found counted after the failed read.
SkipHeaderMessageCountsEof(skip_header, found) ==
    [text |-> "The parameter 'skip_header' is set to {}, but there are only {} rows in the csv file",
     a |-> skip_header, b |-> found + 1]

SkipHeaderMessage(skip_header, found) ==
    [text |-> "The parameter 'skip_header' is set to {}, but there are only {} rows in the csv file",
     a |-> skip_header, b |-> found]

\* _init_reader that keeps the file index when the skip times out.
InitReaderNoRollback(in) ==
    IF curr_reader = "null" /\ curr_file_index + 1 < cfg.num_ranges THEN
        LET idx == curr_file_index + 1
            off == cfg.start_offset[idx]
            used == IF off THEN 1 ELSE 0
        IN  IF in.create # "OK" THEN InitResult(in.create, NoMsg, idx, "null", 0)
            ELSE IF off /\ in.skip = "TimedOut"
                 THEN InitResult("TimedOut", NoMsg, idx, "null", 0)
            ELSE IF off /\ in.first # "OK"
                 THEN InitResult(in.first, NoMsg, idx,
                                 IF in.first = "EndOfFile" THEN "eof" ELSE "open", 0)
            ELSE IF in.hdr_ok < cfg.skip_header
                 THEN IF in.hdr_st = "EndOfFile"
                      THEN InitResult("EndOfFile", SkipHeaderMessage(cfg.skip_header, in.hdr_ok),
                                      idx, "eof", used + in.hdr_ok)
                      ELSE InitResult(in.hdr_st, NoMsg, idx, "open", used + in.hdr_ok)
            ELSE InitResult("OK", NoMsg, idx, "open", used + cfg.skip_header)
    ELSE IF curr_reader = "null"
         THEN InitResult("EndOfFile", [text |-> "CSVScanner", a |-> 0, b |-> 0],
                         curr_file_index + 1, "null", 0)
    ELSE InitResult("OK", NoMsg, curr_file_index, curr_reader, 0)

\* _init_reader on the answers `in` of the source.
InitReader(in) ==
    IF curr_reader = "null" /\ curr_file_index + 1 < cfg.num_ranges THEN
        LET idx == curr_file_index + 1
            off == cfg.start_offset[idx]
            used == IF off THEN 1 ELSE 0
        IN  IF in.create # "OK" THEN InitResult(in.create, NoMsg, idx, "null", 0)
            ELSE IF off /\ in.skip = "TimedOut"
                 THEN InitResult("TimedOut", NoMsg, idx - 1, "null", 0)
            ELSE IF off /\ in.first # "OK"
                 THEN InitResult(in.first, NoMsg, idx,
                                 IF in.first = "EndOfFile" THEN "eof" ELSE "open", 0)
            ELSE IF in.hdr_ok < cfg.skip_header
                 THEN IF in.hdr_st = "EndOfFile"
                      THEN InitResult("EndOfFile", SkipHeaderMessage(cfg.skip_header, in.hdr_ok),
                                      idx, "eof", used + in.hdr_ok)
                      ELSE InitResult(in.hdr_st, NoMsg, idx, "open", used + in.hdr_ok)
            ELSE InitResult("OK", NoMsg, idx, "open", used + cfg.skip_header)
    ELSE IF curr_reader = "null"
         THEN InitResult("EndOfFile", [text |-> "CSVScanner", a |-> 0, b |-> 0],
                         curr_file_index + 1, "null", 0)
    ELSE InitResult("OK", NoMsg, curr_file_index, curr_reader, 0)

\* The status that file->skip(start_offset) returns in _init_reader on the
\* answers `in`, "none" when _init_reader does not call it.
SkipStatus(in) ==
    IF /\ curr_reader = "null"
       /\ curr_file_index + 1 < cfg.num_ranges
       /\ in.create = "OK"
       /\ cfg.start_offset[curr_file_index + 1]
    THEN in.skip ELSE "none"

\* ---------------------------------------------------------------- get_next

\* What a call of get_next returns: its status and rows, whether it is a
\* batch cut short by a timeout, and whether the call before it was one.
Return(st, msg, c, partial) ==
    [status |-> st, msg |-> msg, nrows |-> ChunkNumRows(c), partial |-> partial,
     after_partial |-> ret.partial]

\* The head of one round of the do-while loop of get_next on the chunk
\* `chunk`: RETURN_IF_ERROR(_init_reader()), then set_num_rows(0) and the
\* batch loop.
BeginRound(chunk) ==
    \E in \in InitInputs :
        LET ir == InitReader(in)
        IN  /\ curr_file_index' = ir.idx
            /\ curr_reader' = ir.reader
            /\ env' = [kept     |-> env.kept + ir.used,
                       timeouts |-> env.timeouts + (IF ir.st = "TimedOut" THEN 1 ELSE 0),
                       fresh    |-> IF ir.st # "OK" THEN FALSE
                                    ELSE IF ir.idx # curr_file_index THEN TRUE
                                    ELSE env.fresh,
                       skip     |-> SkipStatus(in)]
            /\ row' = BlankRow
            /\ status' = "OK"
            /\ num_rows' = 0
            /\ IF ir.st = "OK"
               THEN /\ pc' = "loop"
                    /\ cols' = SetNumRows(chunk, 0)
                    /\ ret' = [NoRet EXCEPT !.partial = ret.partial]
               ELSE /\ pc' = "idle"
                    /\ cols' = chunk
                    /\ ret' = Return(ir.st, ir.msg, chunk, FALSE)
            /\ error_sink' = [error_sink EXCEPT !.emitted = NoMsg]
            /\ UNCHANGED <<cfg, num_rows_filtered, rejected_sink, buf, sample, split>>

\* The tail returning every timeout as it is, also with rows in the chunk.
GetNextTailTimeoutFirst(ps, msg, c, reader) ==
    LET rows == ChunkNumRows(c)
        rdr  == IF ps = "EndOfFile" THEN "null" ELSE reader
    IN  IF ps \notin {"OK", "EndOfFile"}
        THEN [pc |-> "idle", ret |-> Return(ps, msg, c, FALSE), reader |-> rdr]
        ELSE IF rows = 0
        THEN [pc |-> "init", ret |-> ret, reader |-> rdr]
        ELSE [pc |-> "idle", ret |-> Return("OK", NoMsg, c, FALSE), reader |-> rdr]

\* The tail that keeps the reader of a file that has ended.
GetNextTailKeepsReader(ps, msg, c, reader) ==
    LET rows == ChunkNumRows(c)
    IN  IF ps = "TimedOut" /\ rows = 0
        THEN [pc |-> "idle", ret |-> Return(ps, msg, c, FALSE), reader |-> reader]
        ELSE IF ps \notin {"OK", "EndOfFile", "TimedOut"}
        THEN [pc |-> "idle", ret |-> Return(ps, msg, c, FALSE), reader |-> reader]
        ELSE IF rows = 0
        THEN [pc |-> "init", ret |-> ret, reader |-> reader]
        ELSE [pc |-> "idle", ret |-> Return("OK", NoMsg, c, ps = "TimedOut"), reader |-> reader]

\* What get_next does with the status ps of the batch parse, the chunk being
\* c: where it goes on, what it returns, and the reader it keeps.
GetNextTail(ps, msg, c, reader) ==
    LET rows == ChunkNumRows(c)
        rdr  == IF ps = "EndOfFile" THEN "null" ELSE reader
    IN  IF ps = "TimedOut" /\ rows = 0
        THEN [pc |-> "idle", ret |-> Return(ps, msg, c, FALSE), reader |-> rdr]
        ELSE IF ps \notin {"OK", "EndOfFile", "TimedOut"}
        THEN [pc |-> "idle", ret |-> Return(ps, msg, c, FALSE), reader |-> rdr]
        ELSE IF rows = 0
        THEN [pc |-> "init", ret |-> ret, reader |-> rdr]
        ELSE [pc |-> "idle", ret |-> Return("OK", NoMsg, c, ps = "TimedOut"), reader |-> rdr]

\* The status _parse_csv and _parse_csv_v2 return once their loop is left.
ParseStatus(it) ==
    IF it.ctl = "return" THEN it.st
    ELSE IF ChunkNumRows(it.cols) > 0 THEN "OK" ELSE "EndOfFile"

\* A call of get_next: a fresh chunk, then the first round.
GetNext ==
    /\ pc = "idle"
    /\ ret.status \in {"none", "OK", "TimedOut"}
    /\ BeginRound(CreateChunk)

\* The next round of get_next's loop, after a round that ended with no row.
NextRound ==
    /\ pc = "init"
    /\ BeginRound(cols)

\* One iteration of the batch loop and, when it leaves the loop, the rest of
\* the round of get_next.
ParseRow ==
    /\ pc = "loop"
    /\ \E o \in NextRecordAnswers :
        \E it \in {IF cfg.use_v2
                   THEN ParseCsvV2Iteration(o.status, o.row, cols, num_rows)
                   ELSE ParseCsvIteration(o.status, o.row, cols, num_rows)} :
        LET rdr == IF o.status = "EndOfFile" THEN "eof" ELSE curr_reader
            tail == GetNextTail(ParseStatus(it), it.msg, it.cols, rdr)
        IN  /\ status' = o.status
            /\ row' = o.row
            /\ env' = [kept     |-> env.kept + (IF (o.status = "OK" \/ o.row # BlankRow) /\ ~it.filtered
                                                    THEN 1 ELSE 0),
                       timeouts |-> env.timeouts + (IF o.status = "TimedOut" THEN 1 ELSE 0),
                       fresh    |-> env.fresh /\ o.status = "TimedOut",
                       skip     |-> env.skip]
            /\ cols' = it.cols
            /\ num_rows' = it.num_rows
            /\ num_rows_filtered' = num_rows_filtered + (IF it.filtered THEN 1 ELSE 0)
            /\ error_sink' = IF it.filtered /\ ShouldReport(num_rows_filtered)
                             THEN [n |-> error_sink.n + 1, emitted |-> it.report]
                             ELSE [n |-> error_sink.n, emitted |-> NoMsg]
            /\ rejected_sink' = IF it.filtered /\ cfg.enable_log_rejected_record
                                THEN rejected_sink + 1 ELSE rejected_sink
            /\ IF it.ctl = "continue" /\ it.num_rows < ChunkSize
               THEN /\ pc' = "loop"
                    /\ curr_reader' = rdr
                    /\ ret' = ret
               ELSE /\ pc' = tail.pc
                    /\ curr_reader' = tail.reader
                    /\ ret' = tail.ret
            /\ UNCHANGED <<cfg, curr_file_index, buf, sample, split>>

\* ---------------------------------------------------------- specification

\* A strict scan without flexible column mapping that retains every file
\* column and logs no rejected record: one that can discard a row for its
\* shape, for its encoding and for a field that does not convert.
StrictAllSlots(c) ==
    /\ c.strict_mode
    /\ ~c.flexible_column_mapping
    /\ \A j \in 1..NumFieldsInCsv : c.slots[j]
    /\ ~c.enable_log_rejected_record

\* The configurations of a scan: the options of the scanner and of its
\* ranges, and what the source may do over the scan.  types are the scan
\* contexts taken, and strictOnly keeps the strict configurations alone.
Configs(types, strictOnly, ranges, skipHeaders, offsets, maxRecords, maxKept, maxTimeouts) ==
    {c \in [file_scan_type : ScanTypes,
            flexible_column_mapping : BOOLEAN,
            strict_mode : BOOLEAN,
            use_v2 : BOOLEAN,
            slots : SlotLayouts,
            enable_log_rejected_record : BOOLEAN,
            num_ranges : {ranges},
            skip_header : skipHeaders,
            start_offset : offsets,
            max_records : {maxRecords},
            max_kept : {maxKept},
            max_timeouts : {maxTimeouts}] :
        c.file_scan_type \in types /\ (strictOnly => StrictAllSlots(c))}

NoOffsets(ranges) == {[i \in 0..(ranges - 1) |-> FALSE]}

\* The scanner after its construction and open().
InitScannerState ==
    /\ pc = "idle"
    /\ curr_file_index = -1
    /\ curr_reader = "null"
    /\ cols = <<>>
    /\ num_rows = 0
    /\ row = BlankRow
    /\ status = "OK"
    /\ num_rows_filtered = 0
    /\ error_sink = [n |-> 0, emitted |-> NoMsg]
    /\ rejected_sink = 0
    /\ ret = NoRet
    /\ env = [kept |-> 0, timeouts |-> 0, fresh |-> FALSE, skip |-> "none"]

\* The scanner with its readers seen record by record, their buffers left out.
InitScanner ==
    /\ InitScannerState
    /\ buf = <<>>
    /\ sample = <<>>
    /\ split = <<>>

Init ==
    /\ cfg \in Configs(ScanTypes, FALSE, 1, {0}, NoOffsets(1), MaxRecords, MaxRecords, 0)
    /\ InitScanner

Next == GetNext \/ NextRound \/ ParseRow

\* The row-shape, encoding and conversion policy, in every configuration of
\* it, over one file read from a source that does not time out.
Spec == Init /\ [][Next]_vars

\* The source: strict Load scans of several ranges, with or without a start
\* offset and header rows to skip, read from a source that may time out.
InitSrc ==
    /\ cfg \in Configs({"LOAD"}, TRUE, NumRanges, 0..MaxSkipHeader,
                       [0..(NumRanges - 1) -> BOOLEAN], MaxRecords, MaxRecords, MaxTimeouts)
    /\ InitScanner

SpecSrc == InitSrc /\ [][Next]_vars

\* Scans long enough to pass the cap on detailed error reports.
InitCap ==
    /\ cfg \in Configs({"LOAD"}, TRUE, NumRanges, {0}, NoOffsets(NumRanges),
                       REPORT_ERROR_MAX_NUMBER + CapSlack, MaxKept, 0)
    /\ InitScanner

SpecCap == InitCap /\ [][Next]_vars

\* The source has failed: a read or the opening of a file has returned a
\* status that is neither OK nor end-of-file.
SourceFailed ==
    \/ status \notin {"OK", "EndOfFile"}
    \/ ret.status \in {"IOError", "TimedOut"}

\* The steps of the scanner on a source that never fails.
GetNextOk == GetNext /\ ~SourceFailed'
NextRoundOk == NextRound /\ ~SourceFailed'
ParseRowOk == ParseRow /\ ~SourceFailed'

\* Strict scans of several finite files, in every scan context and both
\* modes, read from a source that never times out and never fails.
InitLive ==
    /\ cfg \in Configs(ScanTypes, TRUE, NumRanges, {0}, NoOffsets(NumRanges),
                       MaxRecords, MaxRecords, 0)
    /\ InitScanner

NextLive == GetNextOk \/ NextRoundOk \/ ParseRowOk

\* A call of get_next runs on until it returns, and the caller calls again
\* as long as the scan has not ended.
SpecLive == InitLive /\ [][NextLive]_vars /\ WF_vars(NextLive)


\* -------------------------------------------------------- the read buffer

\* The bytes of a file, among them the bytes a row delimiter is made of.
Bytes == {"a", "r", "n"}

SeqsUpTo(S, n) == UNION {[1..k -> S] : k \in 0..n}

\* Row delimiters of one byte, of two different bytes, and of one byte twice.
RowDelimiters == {<<"n">>, <<"r", "n">>, <<"n", "n">>}
Files == SeqsUpTo(Bytes, MaxFileLen)

\* CSVBuffer: the storage up to limit is `data`, so limit = Len(data), and
\* position counts the bytes consumed.
Limit(b) == Len(b.data)
Available(b) == Limit(b) - b.position
FreeSpace(b) == b.capacity - Limit(b)
AddLimit(b, bytes) == [b EXCEPT !.data = @ \o bytes]
Skip(b, n) == [b EXCEPT !.position = @ + n]

\* The unread bytes of the buffer.
Unread(b) == SubSeq(b.data, b.position + 1, Limit(b))

\* find(delimiter, pos): the offset in the storage of the first occurrence
\* of the delimiter that starts at or after position + pos and ends at or
\* before limit; -1 for none.
Find(b, delim, pos) ==
    LET hits == {d \in (b.position + pos)..(Limit(b) - Len(delim)) :
                    SubSeq(b.data, d + 1, d + Len(delim)) = delim}
    IN  IF hits = {} THEN -1 ELSE CHOOSE d \in hits : \A e \in hits : d <= e

\* What _file->read(s.data, s.size) can answer for a request of `size` bytes
\* on the rest `src` of the file: some of the bytes, none once the file is
\* exhausted (with OK or, for safety, EndOfFile), or a failure.
ReadAnswers(src, size) ==
    LET m == IF size < Len(src) THEN size ELSE Len(src)
    IN  {[status |-> "OK", bytes |-> SubSeq(src, 1, k)] :
            k \in (IF m = 0 THEN {0} ELSE 1..m)}
        \cup (IF src = <<>> THEN {[status |-> "EndOfFile", bytes |-> <<>>]} ELSE {})
        \cup {[status |-> "IOError", bytes |-> <<>>]}

\* The refill that appends the row delimiter without looking at the room.
FillBufferNoRoomTest(b, rd, res, dcheck) ==
    IF FreeSpace(b) = 0 /\ dcheck THEN [st |-> "Aborted", b |-> b]
    ELSE IF res.status \notin {"OK", "EndOfFile"} THEN [st |-> res.status, b |-> b]
    ELSE LET size == IF res.status = "EndOfFile" THEN 0 ELSE Len(res.bytes)
             b1 == AddLimit(b, SubSeq(res.bytes, 1, size))
             n == Available(b1)
             b2 == AddLimit(b1, rd)
         IN  IF size # 0 THEN [st |-> "OK", b |-> b1]
             ELSE IF n < Len(rd) \/ Find(b1, rd, n - Len(rd)) = -1
             THEN IF n = 0 THEN [st |-> "EndOfFile", b |-> Skip(b2, Len(rd))]
                  ELSE [st |-> "OK", b |-> b2]
             ELSE [st |-> "OK", b |-> b1]

\* The refill that appends only the first byte of the row delimiter.
FillBufferFirstByteOnly(b, rd, res, dcheck) ==
    IF FreeSpace(b) = 0 /\ dcheck THEN [st |-> "Aborted", b |-> b]
    ELSE IF res.status \notin {"OK", "EndOfFile"} THEN [st |-> res.status, b |-> b]
    ELSE LET size == IF res.status = "EndOfFile" THEN 0 ELSE Len(res.bytes)
             b1 == AddLimit(b, SubSeq(res.bytes, 1, size))
             n == Available(b1)
             b2 == AddLimit(b1, <<rd[1]>>)
         IN  IF size # 0 THEN [st |-> "OK", b |-> b1]
             ELSE IF n < Len(rd) \/ Find(b1, rd, n - Len(rd)) = -1
             THEN IF FreeSpace(b1) < Len(rd) THEN [st |-> "InternalError", b |-> b1]
                  ELSE IF n = 0 THEN [st |-> "EndOfFile", b |-> Skip(b2, 1)]
                  ELSE [st |-> "OK", b |-> b2]
             ELSE [st |-> "OK", b |-> b1]

\* _fill_buffer on the buffer b with row delimiter rd, res being the answer
\* of the read and dcheck whether the build keeps DCHECK: the status it
\* returns and the buffer it leaves.
FillBuffer(b, rd, res, dcheck) ==
    IF FreeSpace(b) = 0 /\ dcheck THEN [st |-> "Aborted", b |-> b]
    ELSE IF res.status \notin {"OK", "EndOfFile"} THEN [st |-> res.status, b |-> b]
    ELSE LET size == IF res.status = "EndOfFile" THEN 0 ELSE Len(res.bytes)
             b1 == AddLimit(b, SubSeq(res.bytes, 1, size))
             n == Available(b1)
             b2 == AddLimit(b1, rd)
         IN  IF size # 0 THEN [st |-> "OK", b |-> b1]
             ELSE IF n < Len(rd) \/ Find(b1, rd, n - Len(rd)) = -1
             THEN IF FreeSpace(b1) < Len(rd) THEN [st |-> "InternalError", b |-> b1]
                  ELSE IF n = 0 THEN [st |-> "EndOfFile", b |-> Skip(b2, Len(rd))]
                  ELSE [st |-> "OK", b |-> b2]
             ELSE [st |-> "OK", b |-> b1]

\* A reader on the file `file` with a buffer of `capacity` bytes.
NewReader(file, capacity) ==
    [src |-> file,
     b |-> [data |-> <<>>, position |-> 0, capacity |-> capacity],
     records |-> <<>>,
     st |-> "OK",
     file_read_count |-> 0]

\* The reader r after a refill answered by res.
Refilled(r, rd, res, dcheck) ==
    LET f == FillBuffer(r.b, rd, res, dcheck)
    IN  [r EXCEPT !.b = f.b,
                  !.src = SubSeq(@, Len(res.bytes) + 1, Len(@)),
                  !.st = f.st,
                  !.file_read_count = @ + 1]

\* One round of the loop of next_record(Record*) in plain mode: the record
\* up to the first row delimiter in the unread bytes and the skip past it,
\* or, with no delimiter there, a refill.
NextRecordRound(r, rd, res, dcheck) ==
    LET d == Find(r.b, rd, 0)
    IN  IF d # -1
        THEN [r EXCEPT !.records = Append(@, SubSeq(r.b.data, r.b.position + 1, d)),
                       !.b = Skip(r.b, d - r.b.position + Len(rd))]
        ELSE Refilled(r, rd, res, dcheck)

\* A round of next_record on the reader.
NextRecord ==
    /\ buf.r.st = "OK"
    /\ \E res \in ReadAnswers(buf.r.src, FreeSpace(buf.r.b)) :
          buf' = [buf EXCEPT !.r = NextRecordRound(@, buf.rd, res, buf.dcheck)]
    /\ UNCHANGED <<scanVars, sample, split>>

\* A refill asked for whatever the unread bytes are, as the tokenizer of the
\* enclosure/escape mode does inside a quoted field.
Refill ==
    /\ buf.r.st = "OK"
    /\ buf.r.file_read_count < MaxFills
    /\ \E res \in ReadAnswers(buf.r.src, FreeSpace(buf.r.b)) :
          buf' = [buf EXCEPT !.r = Refilled(@, buf.rd, res, buf.dcheck)]
    /\ UNCHANGED <<scanVars, sample, split>>

\* The reader of the file has stopped: what it yielded is kept, and a new
\* reader with a buffer of the same capacity opens the terminated file.
OpenTerminated ==
    /\ buf.r.st # "OK"
    /\ ~buf.first.done
    /\ buf' = [buf EXCEPT !.first = [done |-> TRUE, records |-> buf.r.records,
                                     st |-> buf.r.st],
                          !.r = NewReader(buf.file \o buf.rd, buf.r.b.capacity)]
    /\ UNCHANGED <<scanVars, sample, split>>

\* A file, and then the same file with one more row delimiter, each read by
\* a reader of its own.
InitBuf ==
    /\ cfg = CHOOSE c \in Configs({"LOAD"}, TRUE, 1, {0}, NoOffsets(1), 0, 0, 0) : TRUE
    /\ InitScannerState
    /\ sample = <<>>
    /\ split = <<>>
    /\ buf \in {[file |-> f, rd |-> rd, dcheck |-> k,
                 first |-> [done |-> FALSE, records |-> <<>>, st |-> "OK"],
                 r |-> NewReader(f, c)] :
                    f \in Files, rd \in RowDelimiters, c \in 1..MaxCapacity, k \in BOOLEAN}

NextBuf == NextRecord \/ Refill \/ OpenTerminated

\* The read buffer and the plain record splitter, byte by byte.
SpecBuf == InitBuf /\ [][NextBuf]_vars

\* A refill of a reader whose last refill returned EndOfFile, the buffer
\* being as that refill left it.
RefillAfterEndOfFile ==
    /\ buf.r.st = "EndOfFile"
    /\ buf.r.file_read_count < MaxFills
    /\ \E res \in ReadAnswers(buf.r.src, FreeSpace(buf.r.b)) :
          buf' = [buf EXCEPT !.r = Refilled(@, buf.rd, res, buf.dcheck)]
    /\ UNCHANGED <<scanVars, sample, split>>

NextEof == NextRecord \/ Refill \/ RefillAfterEndOfFile

\* A reader that is asked to refill again after the end of its file.
SpecEof == InitBuf /\ [][NextEof]_vars

\* ------------------------------------------------------- schema inference

\* The fields of the sampled rows, and which of them StringParser parses
\* as an integer, as a floating-point number and as a boolean.
Fields == {"1", "2", "2.5", "3.5", "true", "false", "abc"}
StringToInt(field) == field \in {"1", "2"}
StringToFloat(field) == field \in {"1", "2", "2.5", "3.5"}
StringToBool(field) == field \in {"1", "true", "false"}

\* The rows of a sampled file: the blank row, rows of one field, and rows of
\* two and of three fields.
SampleRows ==
    {<<>>} \cup {<<f>> : f \in Fields}
           \cup {<<"abc", "1">>, <<"1", "2.5", "true">>, <<"2", "3.5", "false">>}

SampleFiles == UNION {[1..k -> SampleRows] : k \in 0..MaxSampleRows}

\* The ladder with the floating-point parse tried first.
GetTypeDescFloatFirst(field) ==
    IF StringToFloat(field) THEN "DOUBLE"
    ELSE IF StringToInt(field) THEN "BIGINT"
    ELSE IF StringToBool(field) THEN "BOOLEAN"
    ELSE "VARCHAR"

\* get_type_desc
GetTypeDesc(field) ==
    IF StringToInt(field) THEN "BIGINT"
    ELSE IF StringToFloat(field) THEN "DOUBLE"
    ELSE IF StringToBool(field) THEN "BOOLEAN"
    ELSE "VARCHAR"

\* The candidate schema of the fields of one row: schema.emplace_back(i,
\* fmt::format("${}", i + 1), get_type_desc(fields[i])) for i = 0, 1, ...;
\* the name "$n" is kept as the number n.
CandidateSchema(fields) ==
    [k \in 1..Len(fields) |->
        [id |-> k - 1, name |-> k, type |-> GetTypeDesc(fields[k])]]

\* What next_record answers at position pos of the sampled file: the next
\* row with OK, the last row with EndOfFile when the enclosure/escape
\* tokenizer delivers the two together, EndOfFile past the last row, or a
\* failure of the source.
SampleAnswers ==
    LET n == Len(sample.file)
        p == sample.pos
    IN  (IF p < n
         THEN IF sample.use_v2 /\ sample.eof_with_last /\ p + 1 = n
              THEN {[status |-> "EndOfFile", fields |-> sample.file[p + 1]]}
              ELSE {[status |-> "OK", fields |-> sample.file[p + 1]]}
         ELSE {[status |-> "EndOfFile", fields |-> <<>>]})
        \cup {[status |-> "IOError", fields |-> <<>>]}

\* One round of the loop of _get_schema / _get_schema_v2, and after the
\* loop the return.
GetSchemaRound ==
    /\ sample # <<>>
    /\ sample.st = "sampling"
    /\ IF sample.i < sample.schema_sample_file_row_count
       THEN \E o \in SampleAnswers :
              sample' =
                IF o.status = "EndOfFile"
                THEN [sample EXCEPT !.st = "OK", !.pos = Len(sample.file)]
                ELSE IF o.status # "OK"
                THEN [sample EXCEPT !.st = o.status]
                ELSE IF o.fields = <<>>
                THEN [sample EXCEPT !.pos = @ + 1]
                ELSE [sample EXCEPT !.pos = @ + 1,
                                    !.schemas = Append(@, CandidateSchema(o.fields)),
                                    !.i = @ + 1]
       ELSE sample' = [sample EXCEPT !.st = "OK"]
    /\ UNCHANGED <<scanVars, buf, split>>

\* A reader at the start of a file to sample, in either mode.
InitSchema ==
    /\ cfg = CHOOSE c \in Configs({"LOAD"}, TRUE, 1, {0}, NoOffsets(1), 0, 0, 0) : TRUE
    /\ InitScannerState
    /\ buf = <<>>
    /\ split = <<>>
    /\ sample \in {[file |-> f, pos |-> 0, i |-> 0, schemas |-> <<>>, st |-> "sampling",
                    schema_sample_file_row_count |-> c, use_v2 |-> v, eof_with_last |-> e] :
                      f \in SampleFiles, c \in 0..MaxSampleRows, v \in BOOLEAN, e \in BOOLEAN}

NextSchema == GetSchemaRound

\* Schema inference over a sampled file.
SpecSchema == InitSchema /\ [][NextSchema]_vars

\* ------------------------------------------------- the plain record split

\* The bytes of a record, and column delimiters of one byte, of one byte
\* twice and of two different bytes.
RecordBytes == {"a", ",", "|"}
ColumnDelimiters == {<<",">>, <<"|", "|">>, <<",", "|">>}
PlainRecords == SeqsUpTo(RecordBytes, MaxRecordLen)

\* The offset of the first occurrence of delim in the bytes, -1 for none.
FindIn(bytes, delim) ==
    LET hits == {d \in 0..(Len(bytes) - Len(delim)) :
                    SubSeq(bytes, d + 1, d + Len(delim)) = delim}
    IN  IF hits = {} THEN -1 ELSE CHOOSE d \in hits : \A e \in hits : d <= e

\* split_record without trim_space: a field up to each column delimiter
\* found, and the rest after the last one; no field for an empty record.
RECURSIVE SplitFrom(_, _)
SplitFrom(bytes, delim) ==
    LET d == FindIn(bytes, delim)
    IN  IF d = -1 THEN <<bytes>>
        ELSE <<SubSeq(bytes, 1, d)>>
             \o SplitFrom(SubSeq(bytes, d + Len(delim) + 1, Len(bytes)), delim)

SplitRecord(record, delim) == IF record = <<>> THEN <<>> ELSE SplitFrom(record, delim)

\* The head of the plain loop with the test of record.empty() left out.
PlainLoopHeadNoBlankTest(st, record, delim) ==
    IF st = "EndOfFile" THEN [ctl |-> "break", fields |-> <<>>]
    ELSE IF st # "OK" THEN [ctl |-> "return", fields |-> <<>>]
    ELSE [ctl |-> "validate", fields |-> SplitRecord(record, delim)]

\* The head of the loop of _parse_csv on the answer of next_record: leave at
\* the end of the file, return a failure, pass over an empty record, and
\* split any other record into the fields that validation then sees.
PlainLoopHead(st, record, delim) ==
    IF st = "EndOfFile" THEN [ctl |-> "break", fields |-> <<>>]
    ELSE IF st # "OK" THEN [ctl |-> "return", fields |-> <<>>]
    ELSE IF record = <<>> THEN [ctl |-> "continue", fields |-> <<>>]
    ELSE [ctl |-> "validate", fields |-> SplitRecord(record, delim)]

\* The loop reads a record and goes up to the validation of its fields.
ReadAndSplit ==
    /\ split # <<>>
    /\ split.ctl = "read"
    /\ \E st \in {"OK", "EndOfFile", "IOError"} :
        LET rec == IF st = "OK" THEN split.next ELSE <<>>
            h == PlainLoopHead(st, rec, split.column_delimiter)
        IN  split' = [split EXCEPT !.ctl = h.ctl, !.status = st,
                                   !.record = rec, !.fields = h.fields]
    /\ UNCHANGED <<scanVars, buf, sample>>

\* The plain loop in front of a record.
InitSplit ==
    /\ cfg = CHOOSE c \in Configs({"LOAD"}, TRUE, 1, {0}, NoOffsets(1), 0, 0, 0) : TRUE
    /\ InitScannerState
    /\ buf = <<>>
    /\ sample = <<>>
    /\ split \in {[next |-> r, column_delimiter |-> d, ctl |-> "read", status |-> "OK",
                   record |-> <<>>, fields |-> <<>>] :
                     r \in PlainRecords, d \in ColumnDelimiters}

NextSplit == ReadAndSplit

\* The plain loop from next_record to the fields of the record.
SpecSplit == InitSplit /\ [][NextSplit]_vars

\* ============================================================== the claims

\* The words of the claims.

\* A step of a batch loop: one next_record call and what follows from it.
RowStep == pc = "loop"

\* The field count of the row breaks the policy of the scan context.
ShapeRejected(r) ==
    /\ ~cfg.flexible_column_mapping
    /\ \/ cfg.file_scan_type = "LOAD" /\ r.nf # NumFieldsInCsv
       \/ cfg.file_scan_type = "FILES_INSERT" /\ r.nf < NumFieldsInCsv
       \/ cfg.file_scan_type = "FILES_QUERY" /\ r.nf < NumFieldsInCsv

\* A field of the row that is converted is one the converter cannot parse.
ConversionFails(r) ==
    \E j \in 1..NumFieldsInCsv : cfg.slots[j] /\ j <= r.nf /\ j \in r.bad

\* The chunk column of the retained file column j.
ColumnOf(j) == Cardinality({i \in 1..j : cfg.slots[i]})

\* What an accepted row r leaves in the column of file column j.
CellOf(r, j) ==
    IF j > r.nf THEN "default" ELSE IF j \in r.bad THEN "null" ELSE "value"

\* The step appends exactly one value, that of row r, to every column.
Accepted(r) ==
    /\ \A j \in 1..NumFieldsInCsv :
          cfg.slots[j] => cols'[ColumnOf(j)] = Append(cols[ColumnOf(j)], CellOf(r, j))
    /\ num_rows' = num_rows + 1
    /\ num_rows_filtered' = num_rows_filtered
    /\ error_sink' = [n |-> error_sink.n, emitted |-> NoMsg]
    /\ rejected_sink' = rejected_sink

\* The step counts the row as filtered and appends nothing.
Discarded ==
    /\ num_rows_filtered' = num_rows_filtered + 1
    /\ cols' = cols
    /\ num_rows' = num_rows

LoadMessageText == "Target column count doesn't match source value column count"

\* C1: in Load context without flexible column mapping, in both modes, every
\* non-blank row whose field count differs from the expected count is
\* discarded: rows_filtered goes up by one, nothing is appended, and the
\* batch goes on with the next row.
C1_LoadMismatchDiscarded ==
    [][(/\ RowStep
        /\ cfg.file_scan_type = "LOAD" /\ ~cfg.flexible_column_mapping
        /\ row'.nf > 0 /\ row'.nf # NumFieldsInCsv)
       => (Discarded /\ pc' = "loop")]_vars

\* C2: in Query context without flexible column mapping, in both modes, a
\* non-blank row with fewer fields than expected fails the scan at once with
\* a data-quality error that carries the raw row and the file name, with
\* rows_filtered unchanged; a row with more fields is tolerated, its extra
\* fields ignored.
C2_QueryShortRowFails ==
    [][(/\ RowStep
        /\ cfg.file_scan_type = "FILES_QUERY" /\ ~cfg.flexible_column_mapping
        /\ row'.nf > 0)
       => IF row'.nf < NumFieldsInCsv
          THEN /\ pc' = "idle"
               /\ ret'.status = "DataQualityError"
               /\ ret'.msg.row = row'
               /\ ret'.msg.file = curr_file_index
               /\ num_rows_filtered' = num_rows_filtered
          ELSE /\ ret'.status # "DataQualityError"
               /\ (row'.utf8 /\ ~(cfg.strict_mode /\ ConversionFails(row')))
                     => Accepted(row')]_vars

\* C3: in strict mode a row with a field that fails to convert is discarded
\* and every column is cut back to what it held before the row; rows_filtered
\* goes up by one and the accepted-row count stays.  After every row all
\* columns have the same length, the number of accepted rows.
C3_StrictFailureRollsBack ==
    [][RowStep =>
        /\ (/\ cfg.strict_mode
            /\ row'.nf > 0 /\ ~ShapeRejected(row') /\ row'.utf8
            /\ ConversionFails(row'))
           => Discarded
        /\ \A k \in DOMAIN cols' : Len(cols'[k]) = num_rows']_vars

\* A strict scan has discarded a row whose second field failed after its
\* first field had been appended.
C3_Witness ==
    /\ cfg.strict_mode /\ cfg.slots[1] /\ cfg.slots[2]
    /\ row.bad = {2} /\ ~ShapeRejected(row)
    /\ error_sink.emitted.text = "The field is out of range"
    /\ num_rows_filtered > 0
    /\ num_rows > 0

\* C4: in lenient mode no conversion failure is raised: a field that cannot
\* be converted leaves exactly one null in its column, the row is retained
\* and counted in the batch, and rows_filtered does not move.
C4_LenientNullsField ==
    [][(/\ RowStep
        /\ ~cfg.strict_mode
        /\ row'.nf > 0 /\ ~ShapeRejected(row') /\ row'.utf8)
       => Accepted(row')]_vars

\* A lenient scan has retained a row with a field that cannot be converted.
C4_Witness ==
    /\ ~cfg.strict_mode
    /\ \E j \in row.bad : cfg.slots[j] /\ Len(cols[ColumnOf(j)]) > 0
                          /\ cols[ColumnOf(j)][Len(cols[ColumnOf(j)])] = "null"
    /\ ~ShapeRejected(row)
    /\ num_rows > 0 /\ num_rows_filtered = 0

\* C8: in Insert-from-files context without flexible column mapping a
\* non-blank row is discarded for its shape only when it has fewer fields
\* than expected (rows_filtered goes up by one, nothing is appended); a row
\* with more fields is retained, its first expected fields converted, and
\* the extra fields leave no trace.
C8_InsertShortRowDiscarded ==
    [][(/\ RowStep
        /\ cfg.file_scan_type = "FILES_INSERT" /\ ~cfg.flexible_column_mapping
        /\ row'.nf > 0)
       => IF row'.nf < NumFieldsInCsv
          THEN Discarded
          ELSE /\ error_sink'.emitted.text # LoadMessageText
               /\ (row'.utf8 /\ ~(cfg.strict_mode /\ ConversionFails(row')))
                     => Accepted(row')]_vars

\* C9: with flexible column mapping, in every scan context, no row is
\* discarded and no scan fails because of a field count: a row that is valid
\* UTF-8 and converts is retained, every retained position at or past its
\* field count taking one default, and the fields past the schema ignored.
C9_FlexibleKeepsRow ==
    [][(/\ RowStep
        /\ cfg.flexible_column_mapping
        /\ row'.nf > 0)
       => /\ ret'.status # "DataQualityError"
          /\ error_sink'.emitted.text # LoadMessageText
          /\ (num_rows_filtered' # num_rows_filtered)
                => (~row'.utf8 \/ (cfg.strict_mode /\ ConversionFails(row')))
          /\ (row'.utf8 /\ ~(cfg.strict_mode /\ ConversionFails(row')))
                => Accepted(row')]_vars

\* A flexible scan has retained a row with fewer fields than expected, with
\* a default in the column of a missing field.
C9_Witness ==
    /\ cfg.flexible_column_mapping
    /\ row.nf > 0 /\ row.nf < NumFieldsInCsv
    /\ cfg.slots[NumFieldsInCsv]
    /\ num_rows > 0
    /\ cols[ColumnOf(NumFieldsInCsv)][num_rows] = "default"

\* C10: in both modes a row that passes the column-count policy and is not
\* valid UTF-8 is discarded: rows_filtered goes up by one, the message
\* reported is "Invalid UTF-8 row", nothing is appended, the converted-row
\* count stays, and the loop goes on to read another record.
C10_InvalidUtf8Discarded ==
    [][(/\ RowStep
        /\ row'.nf > 0 /\ ~ShapeRejected(row') /\ ~row'.utf8)
       => /\ Discarded
          /\ error_sink' = [n |-> error_sink.n + 1, emitted |-> InvalidUtf8Message]
          /\ pc' = "loop" /\ ret' = ret]_vars

\* A row that is not valid UTF-8, delivered with the end of the file, has
\* been counted and reported.
C10_Witness ==
    /\ ~row.utf8 /\ ~ShapeRejected(row)
    /\ status = "EndOfFile"
    /\ num_rows_filtered > 0
    /\ error_sink.emitted = InvalidUtf8Message


\* The smaller of two numbers.
Min(a, b) == IF a < b THEN a ELSE b

\* A call of get_next returns in this step.
Returns == pc # "idle" /\ pc' = "idle"

\* C5 as the specification states it: a timeout that cut a batch short is
\* surfaced on the next call, which therefore returns the timeout status.
C5_TimeoutSurfacedOnNextCall ==
    [][(ret.partial /\ Returns) => ret'.status = "TimedOut"]_vars

\* C5: a timeout of the source in a batch with no row yet makes get_next
\* return the timeout status and keep its reader and file position; with at
\* least one row, get_next returns exactly those rows with success and keeps
\* its reader and file position.  The timeout itself is not kept: the next
\* call starts an empty batch on the same reader, goes on reading, and
\* returns a timeout only when the source times out again, in a batch that
\* has no row.
C5_TimeoutPartialBatch ==
    [][/\ (RowStep /\ status' = "TimedOut")
          => /\ pc' = "idle"
             /\ curr_reader' = curr_reader /\ curr_reader' = "open"
             /\ curr_file_index' = curr_file_index
             /\ cols' = cols /\ num_rows' = num_rows
             /\ IF num_rows = 0
                THEN ret'.status = "TimedOut"
                ELSE ret'.status = "OK" /\ ret'.nrows = num_rows /\ ret'.partial
       /\ (pc = "idle" /\ ret.partial /\ pc' # pc)
          => /\ pc' = "loop"
             /\ curr_reader' = curr_reader /\ curr_file_index' = curr_file_index
             /\ num_rows' = 0 /\ \A k \in DOMAIN cols' : cols'[k] = <<>>
       /\ (ret.partial /\ Returns /\ ret'.status = "TimedOut")
          => /\ env'.timeouts = env.timeouts + 1
             /\ ret'.nrows = 0]_vars

\* The call after a batch cut short by a timeout has returned rows with
\* success.
C5_Witness ==
    /\ pc = "idle"
    /\ ret.after_partial
    /\ ret.status = "OK" /\ ret.nrows > 0
    /\ env.timeouts = 1

\* C7: a discarded row, whatever it is discarded for and in whatever file,
\* is reported to the error sink exactly when the filtered-row counter,
\* after counting the row, is at most 50; the number of reports is always
\* min(rows_filtered, 50), and a row past the cap is still counted.
C7_ReportCap ==
    /\ [](error_sink.n = Min(num_rows_filtered, REPORT_ERROR_MAX_NUMBER))
    /\ [][(num_rows_filtered' # num_rows_filtered)
          => /\ num_rows_filtered' = num_rows_filtered + 1
             /\ IF num_rows_filtered' <= REPORT_ERROR_MAX_NUMBER
                THEN error_sink'.n = error_sink.n + 1 /\ error_sink'.emitted # NoMsg
                ELSE error_sink' = [n |-> error_sink.n, emitted |-> NoMsg]]_vars

\* Rows have been discarded past the cap, in a second file, and the last of
\* them was counted without a report.
C7_Witness ==
    /\ num_rows_filtered > REPORT_ERROR_MAX_NUMBER
    /\ error_sink = [n |-> REPORT_ERROR_MAX_NUMBER, emitted |-> NoMsg]
    /\ curr_file_index > 0
    /\ row.nf > 0


\* The bytes b end with the row delimiter rd.
EndsWith(b, rd) ==
    Len(b) >= Len(rd) /\ SubSeq(b, Len(b) - Len(rd) + 1, Len(b)) = rd

\* Both files have been read, neither up to a failure of the source.
BothRead ==
    /\ buf.first.done /\ buf.first.st # "IOError"
    /\ buf.r.st \notin {"OK", "IOError"}

\* C6: a file whose last row is not terminated by the row delimiter yields
\* the same records as the same file with the row delimiter at its end, for
\* every row delimiter, also of several bytes: the buffer lets the one be read
\* to the end of the file exactly when it lets the other, and then the records
\* are the same.  A refill at the end of the file appends exactly one row
\* delimiter when the unread bytes do not end with one, and nothing when they
\* do.
C6_TrailingDelimiterEquivalence ==
    /\ []((buf.file # <<>> /\ ~EndsWith(buf.file, buf.rd) /\ BothRead)
            => /\ buf.first.st = "EndOfFile" <=> buf.r.st = "EndOfFile"
               /\ buf.first.st = "EndOfFile" => buf.first.records = buf.r.records)
    /\ [][(/\ buf.r.src = <<>>
           /\ buf'.r.file_read_count = buf.r.file_read_count + 1
           /\ buf'.r.st \in {"OK", "EndOfFile"})
          => buf'.r.b.data =
                IF EndsWith(Unread(buf.r.b), buf.rd)
                THEN buf.r.b.data
                ELSE buf.r.b.data \o buf.rd]_vars

\* A file of two rows, the last one not terminated, and the same file
\* terminated have both been read to the end with a two-byte row delimiter,
\* the terminated one with a refill at the end of the file that found the
\* unread bytes terminated.
C6_Witness ==
    /\ buf.file # <<>> /\ ~EndsWith(buf.file, buf.rd)
    /\ Len(buf.rd) = 2
    /\ buf.first.st = "EndOfFile" /\ buf.r.st = "EndOfFile"
    /\ Len(buf.r.records) = 2 /\ buf.r.records[2] # <<>>
    /\ buf.r.file_read_count > 3


\* C11 as the specification states it: with skip_header = k >= 1, a file of
\* exactly k rows (the batch loop meets the end of the file on its first
\* read) makes the read attempt return EndOfFile with the message that names
\* k and the k rows found.
C11_ExactHeaderReported ==
    [][(/\ RowStep /\ env.fresh /\ cfg.skip_header >= 1
        /\ status' = "EndOfFile" /\ row' = BlankRow)
       => /\ pc' = "idle"
          /\ ret'.status = "EndOfFile"
          /\ ret'.msg.a = cfg.skip_header /\ ret'.msg.b = cfg.skip_header]_vars

SkipHeaderText ==
    "The parameter 'skip_header' is set to {}, but there are only {} rows in the csv file"

\* C11: with skip_header = k >= 1, a file with fewer than k rows makes
\* get_next return EndOfFile with the message that names k and the number
\* j < k of rows found.  A file of exactly k rows is not reported: its header
\* is skipped, the batch loop meets the end of the file without a word, the
\* reader is closed and get_next goes on to the next range; no message ever
\* names k rows found.
C11_SkipHeaderShortFile ==
    [][/\ (pc # "loop" /\ pc' = "idle" /\ ret'.status = "EndOfFile"
           /\ curr_reader' = "eof" /\ cfg.skip_header >= 1
           /\ ~cfg.start_offset[curr_file_index'])
          => /\ ret'.msg.text = SkipHeaderText
             /\ ret'.msg.a = cfg.skip_header
             /\ ret'.msg.b < cfg.skip_header
             /\ ret'.nrows = 0
       /\ (/\ RowStep /\ env.fresh /\ cfg.skip_header >= 1
           /\ status' = "EndOfFile" /\ row' = BlankRow)
          => /\ pc' = "init" /\ ret' = ret
             /\ curr_reader' = "null"
             /\ error_sink'.emitted = NoMsg
       /\ ret'.msg.text = SkipHeaderText => ret'.msg.b < ret'.msg.a]_vars

\* The first file of a scan with skip_header = k held exactly k rows: they
\* were skipped, the end of the file was met in silence and get_next is
\* about to open the next range.
C11_Witness ==
    /\ cfg.skip_header >= 1
    /\ pc = "init" /\ status = "EndOfFile" /\ curr_reader = "null"
    /\ curr_file_index = 0 /\ ~cfg.start_offset[0]
    /\ env.kept = cfg.skip_header /\ num_rows_filtered = 0
    /\ ret.status = "none"


\* A refill of the reader happens in this step, and the source answers it
\* without a failure.
RefillStep ==
    /\ buf'.r.file_read_count = buf.r.file_read_count + 1
    /\ buf'.r.st # "IOError"

\* The source has no byte left for the refill of this step.
ZeroBytes == buf.r.src = <<>>

\* C12: for every buffer with free_space() > 0 and every row delimiter, a
\* refill returns EndOfFile exactly when the source delivers zero bytes and
\* no unread byte is in the buffer, and then leaves available() = 0 and never
\* reports the line-length error; with zero bytes delivered and an unread
\* byte in the buffer it returns success, or the line-length error when the
\* row delimiter it needs cannot be appended for lack of room.
C12_EndOfFileExactlyAtTrueEnd ==
    [][(RefillStep /\ FreeSpace(buf.r.b) > 0)
       => /\ buf'.r.st = "EndOfFile" <=> (ZeroBytes /\ Available(buf.r.b) = 0)
          /\ buf'.r.st = "EndOfFile" => Available(buf'.r.b) = 0
          /\ (ZeroBytes /\ Available(buf.r.b) > 0)
                => /\ buf'.r.st \in {"OK", "InternalError"}
                   /\ buf'.r.st = "InternalError"
                         <=> (/\ ~EndsWith(Unread(buf.r.b), buf.rd)
                              /\ FreeSpace(buf.r.b) < Len(buf.rd))]_vars


\* C13: a refill of a buffer with free_space() = 0 fails: it returns an
\* error for the exhausted buffer, takes no byte from the source and leaves
\* position and limit as they were.
C13_FullBufferRefillFails ==
    [][(RefillStep /\ FreeSpace(buf.r.b) = 0)
       => /\ buf'.r.st = "InternalError"
          /\ buf'.r.src = buf.r.src
          /\ buf'.r.b = buf.r.b]_vars


\* The non-blank rows among the first n rows of the sampled file.
NonBlank(n) == {k \in 1..n : sample.file[k] # <<>>}

\* The row a candidate schema is appended for in this step.
SampledRow == sample.file[sample.pos + 1]

\* C14: every sampled field is classified by the ladder integer, float,
\* boolean, string, the first parse that succeeds deciding: a field that
\* parses as an integer is BIGINT whatever else it parses as, and the rows
\* "1,2.5,true" and "2,3.5,false" both give [BIGINT, DOUBLE, BOOLEAN].
C14_ProbingLadder ==
    /\ [][(Len(sample'.schemas) = Len(sample.schemas) + 1)
          => LET c == sample'.schemas[Len(sample'.schemas)]
             IN  /\ Len(c) = Len(SampledRow)
                 /\ \A k \in 1..Len(c) :
                      LET f == SampledRow[k]
                      IN  /\ StringToInt(f) => c[k].type = "BIGINT"
                          /\ (~StringToInt(f) /\ StringToFloat(f)) => c[k].type = "DOUBLE"
                          /\ (~StringToInt(f) /\ ~StringToFloat(f) /\ StringToBool(f))
                                => c[k].type = "BOOLEAN"
                          /\ (~StringToInt(f) /\ ~StringToFloat(f) /\ ~StringToBool(f))
                                => c[k].type = "VARCHAR"
                 /\ SampledRow \in {<<"1", "2.5", "true">>, <<"2", "3.5", "false">>}
                      => /\ c[1].type = "BIGINT"
                         /\ c[2].type = "DOUBLE"
                         /\ c[3].type = "BOOLEAN"]_vars

\* The two rows of the scenario have been sampled and classified.
C14_Witness ==
    /\ sample # <<>>
    /\ sample.file = <<<<"1", "2.5", "true">>, <<"2", "3.5", "false">>>>
    /\ sample.st = "OK"
    /\ Len(sample.schemas) = 2
    /\ \A r \in 1..2 : sample.schemas[r][1].type = "BIGINT"


IsNonBlank(r) == r # <<>>

\* C19: in both modes a finished inference holds exactly
\* min(schema_sample_file_row_count, non-blank rows of the file) candidate
\* schemas, the k-th being that of the k-th non-blank row of the file, the
\* last row included: one entry per field of the row, entry i (from 0) named
\* "$" i+1.  Blank rows give no candidate and use no sample slot.
C19_OneCandidatePerNonBlankRow ==
    (sample # <<>> /\ sample.st = "OK")
    => LET nb == SelectSeq(sample.file, IsNonBlank)
       IN  /\ Len(sample.schemas) = Min(sample.schema_sample_file_row_count, Len(nb))
           /\ \A j \in 1..Len(sample.schemas) :
                /\ Len(sample.schemas[j]) = Len(nb[j])
                /\ \A k \in 1..Len(nb[j]) :
                     /\ sample.schemas[j][k].id = k - 1
                     /\ sample.schemas[j][k].name = k


\* The fields joined with the column delimiter between them.
RECURSIVE Join(_, _)
Join(fields, delim) ==
    IF Len(fields) = 0 THEN <<>>
    ELSE IF Len(fields) = 1 THEN fields[1]
    ELSE fields[1] \o delim \o Join(Tail(fields), delim)

\* The column delimiters met in the bytes, read from left to right.
RECURSIVE Delimiters(_, _)
Delimiters(bytes, delim) ==
    IF Len(bytes) < Len(delim) THEN 0
    ELSE IF SubSeq(bytes, 1, Len(delim)) = delim
         THEN 1 + Delimiters(SubSeq(bytes, Len(delim) + 1, Len(bytes)), delim)
         ELSE Delimiters(Tail(bytes), delim)

\* C15: in plain mode without trim_space the fields of a record are one
\* more than the column delimiters in it, each field is a slice of the record
\* and the fields joined with the column delimiter are the record again; a
\* record of no byte has no field and never reaches validation.
C15_SplitRecordRoundTrip ==
    split # <<>> =>
        /\ split.ctl = "validate" =>
             /\ split.record # <<>>
             /\ Len(split.fields) = Delimiters(split.record, split.column_delimiter) + 1
             /\ Join(split.fields, split.column_delimiter) = split.record
        /\ (split.ctl # "read" /\ split.status = "OK" /\ split.record = <<>>)
             => split.ctl = "continue" /\ split.fields = <<>>
        /\ SplitRecord(<<>>, split.column_delimiter) = <<>>

\* A record with one column delimiter of two bytes has been split into two
\* fields, neither empty.
C15_Witness ==
    /\ split # <<>>
    /\ split.ctl = "validate"
    /\ Len(split.column_delimiter) = 2
    /\ Len(split.fields) = 2
    /\ split.fields[1] # <<>> /\ split.fields[2] # <<>>


\* C16: in every state that refills and record consumptions reach,
\* 0 <= position <= limit <= capacity; a refill only adds bytes after the
\* ones the buffer holds, never past the capacity, and moves the position
\* only by the row delimiter it has just appended at the end of the file,
\* never past the limit.
C16_BufferInvariant ==
    /\ [](buf # <<>> =>
            /\ 0 <= buf.r.b.position
            /\ buf.r.b.position <= Limit(buf.r.b)
            /\ Limit(buf.r.b) <= buf.r.b.capacity)
    /\ [][(buf'.r.file_read_count = buf.r.file_read_count + 1)
          => /\ Limit(buf'.r.b) >= Limit(buf.r.b)
             /\ SubSeq(buf'.r.b.data, 1, Limit(buf.r.b)) = buf.r.b.data
             /\ Limit(buf'.r.b) <= buf.r.b.capacity
             /\ buf'.r.b.position \in
                  {buf.r.b.position} \cup
                  (IF buf'.r.st = "EndOfFile" /\ Available(buf.r.b) = 0
                   THEN {buf.r.b.position + Len(buf.rd)} ELSE {})
             /\ buf'.r.b.position <= Limit(buf'.r.b)]_vars

\* The refill at the end of a file has appended a row delimiter of two bytes
\* up to the last byte of the buffer and skipped it, after records were
\* consumed.
C16_Witness ==
    /\ buf.r.st = "EndOfFile"
    /\ Len(buf.rd) = 2
    /\ buf.r.b.position = buf.r.b.capacity
    /\ Len(buf.r.records) > 0


\* A round of get_next begins: _init_reader runs.
InitStep == pc \in {"idle", "init"}

\* C17: every failure status of the source is propagated to the caller of
\* get_next and ends the scan of the file: when the skip to start_offset
\* fails as a file is opened, and when a read fails in the batch loop, the
\* call of get_next returns that status.
C17_SourceFailurePropagated ==
    [][/\ (InitStep /\ env'.skip \notin {"none", "OK"})
            => (pc' = "idle" /\ ret'.status = env'.skip)
       /\ (RowStep /\ status' = "IOError")
            => (pc' = "idle" /\ ret'.status = "IOError")]_vars


\* The row passes every check of the scan: it is not blank, its field count
\* fits the policy, its bytes are valid UTF-8 and, in strict mode, every
\* converted field parses.
PassesAllChecks(r) ==
    /\ r.nf > 0
    /\ ~ShapeRejected(r)
    /\ r.utf8
    /\ ~(cfg.strict_mode /\ ConversionFails(r))

\* C18: only a row that passes every check is counted in the batch; the
\* batch loop goes on only while the stream has not ended and fewer than
\* chunk_size rows are accepted, so that no batch holds more than chunk_size
\* rows; a loop left at the capacity or at the end of the stream returns
\* success when the batch holds a row (get_next returns these rows) and
\* end-of-file when it holds none (get_next drops the reader and goes to the
\* next file); get_next never returns success with an empty chunk.
C18_BatchHoldsAcceptedRows ==
    /\ [](/\ num_rows <= ChunkSize
          /\ ChunkNumRows(cols) <= ChunkSize
          /\ (pc = "loop" => num_rows < ChunkSize)
          /\ (ret.status = "OK" => ret.nrows \in 1..ChunkSize))
    /\ [][RowStep =>
            /\ num_rows' \in {num_rows, num_rows + 1}
            /\ ChunkNumRows(cols') = num_rows'
            /\ (num_rows' = num_rows + 1 =>
                    /\ PassesAllChecks(row')
                    /\ status' \in {"OK", "EndOfFile"})
            /\ (pc' = "loop" => status' = "OK" /\ num_rows' < ChunkSize)
            /\ ((pc' # "loop" /\ (status' = "EndOfFile" \/ num_rows' = ChunkSize)) =>
                    IF num_rows' > 0
                    THEN pc' = "idle" /\ ret'.status = "OK" /\ ret'.nrows = num_rows'
                    ELSE pc' = "init" /\ curr_reader' = "null")]_vars


\* The batch loop has read a blank row: next_record succeeded with a record
\* of no byte (plain mode) or a row of no column (enclosure/escape mode).
BlankRowStep == RowStep /\ status' = "OK" /\ row'.nf = 0

\* C20: a blank row is passed over and nothing else happens: no column of
\* the chunk changes, the accepted rows and the filtered rows keep their
\* counts, nothing is reported or logged as rejected, and in every scan
\* context the loop goes on without get_next returning.
C20_BlankRowSkipped ==
    [][BlankRowStep =>
          /\ cols' = cols
          /\ num_rows' = num_rows
          /\ num_rows_filtered' = num_rows_filtered
          /\ error_sink' = [n |-> error_sink.n, emitted |-> NoMsg]
          /\ rejected_sink' = rejected_sink
          /\ pc' = "loop"
          /\ ret' = ret
          /\ curr_reader' = curr_reader
          /\ curr_file_index' = curr_file_index]_vars

\* A blank row has just been read in a query, the loop of the plain mode
\* holding an accepted row.
C20_Witness ==
    /\ pc = "loop"
    /\ status = "OK"
    /\ row.nf = 0
    /\ num_rows > 0
    /\ cfg.file_scan_type = "FILES_QUERY"
    /\ ~cfg.use_v2
    /\ ~cfg.flexible_column_mapping


\* The tokenizer has produced a non-blank row, with OK or, at the end of
\* the file, together with the end-of-file status.
NonBlankRowStep == RowStep /\ status' \in {"OK", "EndOfFile"} /\ row'.nf > 0

\* C21: in the Load and the Insert-from-files context, in both modes, every
\* non-blank row the tokenizer produces, the last row delivered with the
\* end-of-file status included, is either accepted (one value appended to
\* every column) or counted once in num_rows_filtered, never both and never
\* neither; accepted rows + filtered rows = non-blank rows read follows.
C21_RowAccounting ==
    [][(NonBlankRowStep /\ cfg.file_scan_type \in {"LOAD", "FILES_INSERT"})
          => /\ Accepted(row') \/ Discarded
             /\ ~(Accepted(row') /\ Discarded)]_vars


\* C22: get_next returns EndOfFile only when every range of the scan has
\* been opened and read to its end: the ranges are opened in index order,
\* and the end of a file met while its first partial record or its header
\* rows are skipped does not end the scan while later ranges remain.
C22_EndOfFileAfterLastRange ==
    [][/\ (pc' = "idle" /\ ret'.status = "EndOfFile")
            => (curr_reader' = "null" /\ curr_file_index' >= cfg.num_ranges)
       /\ curr_file_index' \in {curr_file_index, curr_file_index + 1}]_vars


\* The skip to start_offset has timed out in the call that returned last.
SkipTimedOut == pc = "idle" /\ ret.status = "TimedOut" /\ env.skip = "TimedOut"

\* C23: when the skip to start_offset times out as a range is opened,
\* get_next returns the timeout with no reader held and the file index where
\* it was, nothing read and nothing counted; the call that follows opens
\* that same range again (or times out on it again), so that no range is
\* passed over and no record is read twice.
C23_SkipTimeoutReopensRange ==
    [][/\ (InitStep /\ env'.skip = "TimedOut")
            => /\ pc' = "idle"
               /\ ret'.status = "TimedOut" /\ ret'.nrows = 0
               /\ curr_reader = "null" /\ curr_reader' = "null"
               /\ curr_file_index' = curr_file_index
               /\ cfg.start_offset[curr_file_index + 1]
               /\ env'.kept = env.kept
               /\ num_rows_filtered' = num_rows_filtered
       /\ SkipTimedOut
            => /\ \/ curr_file_index' = curr_file_index + 1
                  \/ curr_file_index' = curr_file_index /\ env'.skip = "TimedOut"
               /\ env'.skip \in {"OK", "IOError", "TimedOut"} \/ ret'.status = "IOError"
               /\ curr_reader' # "null" => curr_file_index' = curr_file_index + 1]_vars

\* The skip to the start offset of the second range has timed out twice,
\* the first range having been read to its end, and the second range is
\* still the next one to open.
C23_Witness ==
    /\ SkipTimedOut
    /\ env.timeouts = 2
    /\ ~cfg.start_offset[0] /\ cfg.start_offset[1]
    /\ curr_file_index = 0
    /\ curr_reader = "null"
    /\ env.kept > 0


C25_EndOfFileSticky ==
    [][(/\ buf.r.st = "EndOfFile"
        /\ buf'.r.file_read_count = buf.r.file_read_count + 1
        /\ buf'.r.st # "IOError")
       => /\ buf'.r.st = "EndOfFile"
          /\ Available(buf'.r.b) = 0]_vars

====
